---- MODULE Spec2Model ----
(***************************************************************************)
(* ghostenv: the `run` command of ghostenv/main.py as a state machine.     *)
(* One behaviour is one invocation of run(packages, keep, run_script,      *)
(* requirements, ide).  Every blocking call of run (mkdtemp, venv.create,  *)
(* the two pip invocations, the prompt of choose_ide, Popen, the IDE wait, *)
(* os.system, shutil.rmtree) is one action; its outcome (success, error,   *)
(* KeyboardInterrupt) is drawn with \E.                                    *)
(***************************************************************************)
EXTENDS Integers, Sequences, FiniteSets

VARIABLES
    \* arguments of run and the environment it runs in (fixed by Init)
    packages, keep, run_script, requirements, ide,
    platform,           \* os.name
    reqFileExists,      \* os.path.exists(requirements_file)
    detected,           \* result of detect_ides()
    scriptStatus,       \* exit status the --run script would produce
    \* locals of run
    pc, temp_dir, test_file, ide_process, chosen_ide, exit_code, prompts,
    \* the world
    rootExists,         \* the directory made by mkdtemp is on disk
    scriptOnDisk,       \* test_script.py is in that directory
    ideProc,            \* state of the editor process
    \* what has happened so far
    createResult, reqStep, pkgStep, scriptRan, replStarted,
    rmtreeCalls, rmtreeFailed, cleanupOutcome, finalizeCalls, interrupts,
    returned, retval,
    acquireResult,      \* how mkdtemp ended
    pipCalls,           \* the pip invocations made so far, in order
    written,            \* the import targets written into test_script.py
    replExit            \* exit code of the interpreter started by start_repl

inputs == <<packages, keep, run_script, requirements, ide, platform,
            reqFileExists, detected, scriptStatus>>
locals == <<pc, temp_dir, test_file, ide_process, chosen_ide, exit_code, prompts>>
world  == <<rootExists, scriptOnDisk, ideProc>>
hist   == <<createResult, reqStep, pkgStep, scriptRan, replStarted,
            rmtreeCalls, rmtreeFailed, cleanupOutcome, finalizeCalls,
            interrupts, returned, retval, acquireResult, pipCalls, written,
            replExit>>
vars   == <<inputs, locals, world, hist>>

-----------------------------------------------------------------------------
\* Bounds and program constants

\* wrong answers accepted at the prompt of choose_ide before the model stops retrying
MaxPrompts == 2

ExitFailure == 1
ExitInterrupt == 130
\* exit_code before line 324 and the result of run before it returns: no value yet
NoValue == 0 - 1

None == "None"
TempRoot == "ghostenv_tmp"
TestScript == "test_script.py"

\* Package specifiers are sequences of characters, so that the string
\* operations of create_test_file can be computed on them.
S_requests     == <<"r","e","q","u","e","s","t","s">>
S_requests_ver == S_requests \o <<">","=","2",".","0">>
S_NumPy        == <<"N","u","m","P","y">>
S_numpy        == <<"n","u","m","p","y">>
S_pandas       == <<"p","a","n","d","a","s">>
S_pkg          == <<"p","k","g">>
S_pkg_extra    == S_pkg \o <<"[","e","x","t","r","a","]","=","=","1",".","0">>

PackageLists ==
    { <<>>, <<S_requests>>, <<S_requests_ver, S_NumPy>>, <<S_pkg_extra>> }
Platforms == {"posix", "nt"}
OptionalPaths(p) == {None, "", p}
DetectedIdes == { <<>>, <<"code", "vim">> }
ScriptStatuses == {0, 3}
\* exit codes of the interpreter child of start_repl
ReplStatuses == {0, 1, 3}

\* Python truthiness of an Optional[str] and of an Optional[List[str]]
\* (None and the empty list are both modelled by <<>>)
Truthy(s) == s \notin {None, ""}
TruthyList(l) == Len(l) > 0

WaitIdes == {"code", "code-insiders", "subl"}

-----------------------------------------------------------------------------
\* The helper functions of main.py, as functions of the outcome of the call
\* they wrap.  Results: "True", "False", or the exception that propagates.

create_virtual_environment(o) ==
    CASE o = "ok"        -> "True"
      [] o = "error"     -> "False"
      [] o = "interrupt" -> "KeyboardInterrupt"

\* install_packages without check=True: a non-zero pip exit is not noticed
install_packages_unchecked(o) ==
    CASE o = "ok"        -> "True"
      [] o = "nonzero"   -> "True"
      [] o = "oserror"   -> "Exception"
      [] o = "interrupt" -> "KeyboardInterrupt"

install_packages(o) ==
    CASE o = "ok"        -> "True"
      [] o = "nonzero"   -> "False"
      [] o = "oserror"   -> "Exception"
      [] o = "interrupt" -> "KeyboardInterrupt"

\* install_from_requirements without the os.path.exists test of lines 65-67
install_from_requirements_unchecked(exists, o) ==
    CASE o = "ok"        -> "True"
      [] o = "nonzero"   -> "False"
      [] o = "oserror"   -> "Exception"
      [] o = "interrupt" -> "KeyboardInterrupt"

\* lines 65-72: subprocess.run is reached only when the file exists
pip_invoked(exists) == exists

install_from_requirements(exists, o) ==
    IF ~exists THEN "False"
    ELSE CASE o = "ok"        -> "True"
           [] o = "nonzero"   -> "False"
           [] o = "oserror"   -> "Exception"
           [] o = "interrupt" -> "KeyboardInterrupt"

\* status recorded for an install step from the helper's result
StepStatus(exists, o) ==
    IF ~exists THEN "missing"
    ELSE CASE o = "ok"        -> "ok"
           [] o = "nonzero"   -> "failed"
           [] o = "oserror"   -> "oserror"
           [] o = "interrupt" -> "interrupted"

\* str.lower() on a sequence of characters
UpperCase == <<"A","B","C","D","E","F","G","H","I","J","K","L","M",
               "N","O","P","Q","R","S","T","U","V","W","X","Y","Z">>
LowerCase == <<"a","b","c","d","e","f","g","h","i","j","k","l","m",
               "n","o","p","q","r","s","t","u","v","w","x","y","z">>
LowerChar(c) ==
    IF \E i \in 1..26 : UpperCase[i] = c
    THEN LowerCase[CHOOSE i \in 1..26 : UpperCase[i] = c]
    ELSE c
Lower(str) == [i \in 1..Len(str) |-> LowerChar(str[i])]

\* lines 192-230: the module named after `import` in the lines generated for
\* one package: three known names, else the package string as given
import_target(package) ==
    IF Lower(package) = S_requests THEN S_requests
    ELSE IF Lower(package) = S_pandas THEN S_pandas
    ELSE IF Lower(package) = S_numpy THEN S_numpy
    ELSE package

\* lines 183-238: the import targets of the generated script, one per package
create_test_file(pkgs) == [i \in 1..Len(pkgs) |-> import_target(pkgs[i])]

\* os.system: the exit code of the command on Windows, its wait status
\* (exit code in the high byte) elsewhere
os_system(plat, code) == IF plat = "nt" THEN code ELSE code * 256

-----------------------------------------------------------------------------
\* Control transfers of run

Return(code) ==
    /\ pc' = "done"
    /\ returned' = "returned"
    /\ retval' = code

\* an exception leaves the try body: control goes to the matching handler
RaiseTo(handler) ==
    /\ pc' = handler
    /\ UNCHANGED <<returned, retval>>

Interrupted(at) == interrupts' = interrupts \cup {at}

-----------------------------------------------------------------------------
Init ==
    /\ packages \in PackageLists
    /\ keep \in BOOLEAN
    /\ run_script \in OptionalPaths("myscript.py")
    /\ requirements \in OptionalPaths("reqs.txt")
    /\ ide \in BOOLEAN
    /\ platform \in Platforms
    /\ reqFileExists \in BOOLEAN
    /\ detected \in DetectedIdes
    /\ scriptStatus \in ScriptStatuses
    /\ pc = "mkdtemp"
    /\ temp_dir = None
    /\ test_file = None
    /\ ide_process = None
    /\ chosen_ide = None
    /\ exit_code = NoValue
    /\ prompts = 0
    /\ rootExists = FALSE
    /\ scriptOnDisk = FALSE
    /\ ideProc = "none"
    /\ createResult = "none"
    /\ reqStep = "none"
    /\ pkgStep = "none"
    /\ scriptRan = FALSE
    /\ replStarted = FALSE
    /\ rmtreeCalls = 0
    /\ rmtreeFailed = FALSE
    /\ cleanupOutcome = "none"
    /\ finalizeCalls = 0
    /\ interrupts = {}
    /\ returned = "running"
    /\ retval = NoValue
    /\ acquireResult = "none"
    /\ pipCalls = <<>>
    /\ written = <<>>
    /\ replExit = NoValue

\* line 294: temp_dir = tempfile.mkdtemp(prefix="ghostenv_")
Acquire ==
    /\ pc = "mkdtemp"
    /\ \E o \in {"ok", "oserror", "interrupt"} :
        CASE o = "ok" ->
                /\ temp_dir' = TempRoot
                /\ rootExists' = TRUE
                /\ acquireResult' = "ok"
                /\ pc' = "create"
                /\ UNCHANGED <<interrupts, returned, retval>>
          [] o = "oserror" ->
                /\ acquireResult' = "failed"
                /\ RaiseTo("except_exc")
                /\ UNCHANGED <<temp_dir, rootExists, interrupts>>
          [] o = "interrupt" ->
                /\ acquireResult' = "interrupted"
                /\ RaiseTo("except_kbd")
                /\ Interrupted("mkdtemp")
                /\ UNCHANGED <<temp_dir, rootExists>>
    /\ UNCHANGED <<inputs, test_file, ide_process, chosen_ide, exit_code, prompts,
                   ideProc, createResult, reqStep, pkgStep, scriptRan, replStarted,
                   rmtreeCalls, rmtreeFailed, cleanupOutcome, finalizeCalls,
                   scriptOnDisk, pipCalls, written, replExit>>

\* lines 299-301: if not create_virtual_environment(env_path): return 1
Initialize ==
    /\ pc = "create"
    /\ \E o \in {"ok", "error", "interrupt"} :
        LET r == create_virtual_environment(o) IN
        CASE r = "True" ->
                /\ createResult' = "ok"
                /\ pc' = "install_req"
                /\ UNCHANGED <<interrupts, returned, retval>>
          [] r = "False" ->
                /\ createResult' = "failed"
                /\ Return(ExitFailure)
                /\ UNCHANGED interrupts
          [] r = "KeyboardInterrupt" ->
                /\ createResult' = "interrupted"
                /\ RaiseTo("except_kbd")
                /\ Interrupted("create")
    /\ UNCHANGED <<inputs, temp_dir, test_file, ide_process, chosen_ide, exit_code,
                   prompts, world, reqStep, pkgStep, scriptRan, replStarted,
                   rmtreeCalls, rmtreeFailed, cleanupOutcome, finalizeCalls,
                   acquireResult, pipCalls, written, replExit>>

\* PopulateRequirements with the package step made an `elif` of the requirements step
PopulateRequirements_either ==
    /\ pc = "install_req"
    /\ IF Truthy(requirements)
       THEN \E o \in {"ok", "nonzero", "oserror", "interrupt"} :
            LET r == install_from_requirements(reqFileExists, o) IN
            /\ reqStep' = StepStatus(reqFileExists, o)
            /\ pipCalls' = IF pip_invoked(reqFileExists)
                           THEN Append(pipCalls, "-r") ELSE pipCalls
            /\ CASE r = "True" ->
                    /\ pc' = "activate"
                    /\ UNCHANGED <<interrupts, returned, retval>>
                 [] r = "False" ->
                    /\ Return(ExitFailure)
                    /\ UNCHANGED interrupts
                 [] r = "Exception" ->
                    /\ RaiseTo("except_exc")
                    /\ UNCHANGED interrupts
                 [] r = "KeyboardInterrupt" ->
                    /\ RaiseTo("except_kbd")
                    /\ Interrupted("install_req")
       ELSE /\ pc' = "install_pkg"
            /\ UNCHANGED <<reqStep, pipCalls, interrupts, returned, retval>>
    /\ UNCHANGED <<inputs, temp_dir, test_file, ide_process, chosen_ide, exit_code,
                   prompts, world, createResult, pkgStep, scriptRan, replStarted,
                   rmtreeCalls, rmtreeFailed, cleanupOutcome, finalizeCalls,
                   acquireResult, written, replExit>>

\* lines 303-306: if requirements: if not install_from_requirements(...): return 1
PopulateRequirements ==
    /\ pc = "install_req"
    /\ IF Truthy(requirements)
       THEN \E o \in {"ok", "nonzero", "oserror", "interrupt"} :
            LET r == install_from_requirements(reqFileExists, o) IN
            /\ reqStep' = StepStatus(reqFileExists, o)
            /\ pipCalls' = IF pip_invoked(reqFileExists)
                           THEN Append(pipCalls, "-r") ELSE pipCalls
            /\ CASE r = "True" ->
                    /\ pc' = "install_pkg"
                    /\ UNCHANGED <<interrupts, returned, retval>>
                 [] r = "False" ->
                    /\ Return(ExitFailure)
                    /\ UNCHANGED interrupts
                 [] r = "Exception" ->
                    /\ RaiseTo("except_exc")
                    /\ UNCHANGED interrupts
                 [] r = "KeyboardInterrupt" ->
                    /\ RaiseTo("except_kbd")
                    /\ Interrupted("install_req")
       ELSE /\ pc' = "install_pkg"
            /\ UNCHANGED <<reqStep, pipCalls, interrupts, returned, retval>>
    /\ UNCHANGED <<inputs, temp_dir, test_file, ide_process, chosen_ide, exit_code,
                   prompts, world, createResult, pkgStep, scriptRan, replStarted,
                   rmtreeCalls, rmtreeFailed, cleanupOutcome, finalizeCalls,
                   acquireResult, written, replExit>>

\* lines 308-318: if packages: install them, elif not requirements: return 1
PopulatePackages ==
    /\ pc = "install_pkg"
    /\ IF TruthyList(packages)
       THEN \E o \in {"ok", "nonzero", "oserror", "interrupt"} :
            LET r == install_packages(o) IN
            /\ pkgStep' = StepStatus(TRUE, o)
            /\ pipCalls' = Append(pipCalls, "packages")
            /\ CASE r = "True" ->
                    /\ pc' = "activate"
                    /\ UNCHANGED <<interrupts, returned, retval>>
                 [] r = "False" ->
                    /\ Return(ExitFailure)
                    /\ UNCHANGED interrupts
                 [] r = "Exception" ->
                    /\ RaiseTo("except_exc")
                    /\ UNCHANGED interrupts
                 [] r = "KeyboardInterrupt" ->
                    /\ RaiseTo("except_kbd")
                    /\ Interrupted("install_pkg")
       ELSE /\ IF ~Truthy(requirements)
               THEN Return(ExitFailure)
               ELSE pc' = "activate" /\ UNCHANGED <<returned, retval>>
            /\ UNCHANGED <<pkgStep, pipCalls, interrupts>>
    /\ UNCHANGED <<inputs, temp_dir, test_file, ide_process, chosen_ide, exit_code,
                   prompts, world, createResult, reqStep, scriptRan, replStarted,
                   rmtreeCalls, rmtreeFailed, cleanupOutcome, finalizeCalls,
                   acquireResult, written, replExit>>

\* lines 80-95, the module-level function run_script: 1 when the script file
\* is missing, else the return code of the interpreter run on it
run_script_function(exists, status) ==
    IF ~exists THEN ExitFailure ELSE status

\* lines 323-330 and 364-365: exit_code = 0, then the choice of activation.
\* Inside run the name run_script is the str parameter, so the call of
\* line 326 calls a str: TypeError, caught by `except Exception`.
Activate ==
    /\ pc = "activate"
    /\ exit_code' = 0
    /\ IF Truthy(run_script)
       THEN /\ RaiseTo("except_exc")
            /\ UNCHANGED <<test_file, scriptOnDisk, written, interrupts>>
       ELSE IF ide \/ TruthyList(packages)
       THEN \E o \in {"ok", "oserror", "interrupt"} :
            CASE o = "ok" ->
                    /\ test_file' = TestScript
                    /\ scriptOnDisk' = TRUE
                    /\ written' = create_test_file(packages)
                    /\ pc' = "choose_ide"
                    /\ UNCHANGED <<interrupts, returned, retval>>
              [] o = "oserror" ->
                    /\ RaiseTo("except_exc")
                    /\ UNCHANGED <<test_file, scriptOnDisk, written, interrupts>>
              [] o = "interrupt" ->
                    /\ RaiseTo("except_kbd")
                    /\ Interrupted("test_file")
                    /\ UNCHANGED <<test_file, scriptOnDisk, written>>
       ELSE /\ pc' = "repl"
            /\ UNCHANGED <<test_file, scriptOnDisk, written, interrupts,
                           returned, retval>>
    /\ UNCHANGED <<inputs, temp_dir, ide_process, chosen_ide, prompts,
                   rootExists, ideProc,
                   createResult, reqStep, pkgStep, scriptRan, replStarted,
                   rmtreeCalls, rmtreeFailed, cleanupOutcome, finalizeCalls,
                   acquireResult, pipCalls, replExit>>

\* lines 163-181: what choose_ide does with one line read by input().
\* "retry" is the loop going round again, "Exception" an EOFError leaving it.
choose_ide(ides, answer) ==
    CASE answer.kind = "empty"     -> None
      [] answer.kind = "junk"      -> "retry"
      [] answer.kind = "interrupt" -> None
      [] answer.kind = "eof"       -> "Exception"
      [] answer.kind = "number"    ->
            IF answer.n = Len(ides) + 1 THEN None
            ELSE IF 1 <= answer.n /\ answer.n <= Len(ides) THEN ides[answer.n]
            ELSE "retry"

Answers(ides) ==
    [kind : {"empty", "junk", "interrupt", "eof"}, n : {0}]
        \cup [kind : {"number"}, n : 0 .. (Len(ides) + 2)]

\* line 333 (and 361-363): chosen_ide = choose_ide()
ChooseIde ==
    /\ pc = "choose_ide"
    /\ IF Len(detected) = 0
       THEN /\ chosen_ide' = None
            /\ pc' = "repl"
            /\ UNCHANGED <<prompts, interrupts, returned, retval>>
       ELSE \E a \in Answers(detected) :
            LET r == choose_ide(detected, a) IN
            CASE r = "retry" ->
                    /\ prompts < MaxPrompts
                    /\ prompts' = prompts + 1
                    /\ UNCHANGED <<chosen_ide, pc, interrupts, returned, retval>>
              [] r = "Exception" ->
                    /\ RaiseTo("except_exc")
                    /\ UNCHANGED <<chosen_ide, prompts, interrupts>>
              [] OTHER ->
                    /\ chosen_ide' = r
                    /\ pc' = IF r = None THEN "repl" ELSE "open_ide"
                    /\ interrupts' = IF a.kind = "interrupt"
                                     THEN interrupts \cup {"choose_ide"}
                                     ELSE interrupts
                    /\ UNCHANGED <<prompts, returned, retval>>
    /\ UNCHANGED <<inputs, temp_dir, test_file, ide_process, exit_code, world,
                   createResult, reqStep, pkgStep, scriptRan, replStarted,
                   rmtreeCalls, rmtreeFailed, cleanupOutcome, finalizeCalls,
                   acquireResult, pipCalls, written, replExit>>

\* lines 240-255: Popen of the editor; any Exception gives None
open_file_in_ide(o) ==
    CASE o = "ok"        -> "proc"
      [] o = "error"     -> None
      [] o = "interrupt" -> "KeyboardInterrupt"

\* lines 335-341 and 358-360: ide_process = open_file_in_ide(test_file, chosen_ide)
OpenIde ==
    /\ pc = "open_ide"
    /\ \E o \in {"ok", "error", "interrupt"} :
        LET r == open_file_in_ide(o) IN
        CASE r = "KeyboardInterrupt" ->
                /\ RaiseTo("except_kbd")
                /\ Interrupted("open_ide")
                /\ UNCHANGED <<ide_process, ideProc>>
          [] r = None ->
                /\ ide_process' = None
                /\ pc' = "repl"
                /\ UNCHANGED <<ideProc, interrupts, returned, retval>>
          [] OTHER ->
                /\ ide_process' = r
                /\ ideProc' = "running"
                /\ pc' = "ide_wait"
                /\ UNCHANGED <<interrupts, returned, retval>>
    /\ UNCHANGED <<inputs, temp_dir, test_file, chosen_ide, exit_code, prompts,
                   rootExists, createResult, reqStep, pkgStep, scriptRan, replStarted,
                   rmtreeCalls, rmtreeFailed, cleanupOutcome, finalizeCalls,
                   scriptOnDisk, acquireResult, pipCalls, written, replExit>>

\* the editor process ends on its own (the user closes it)
IdeExits ==
    /\ ideProc = "running"
    /\ returned = "running"
    /\ ideProc' = "exited"
    /\ UNCHANGED <<inputs, locals, rootExists, scriptOnDisk, hist>>

\* the wait branch taken for Sublime Text only
IdeWaitReturns_subl_only ==
    /\ pc = "ide_wait"
    /\ chosen_ide \in {"subl"}
    /\ ideProc = "exited"
    /\ pc' = "cleanup"
    /\ UNCHANGED <<inputs, temp_dir, test_file, ide_process, chosen_ide, exit_code,
                   prompts, world, hist>>

\* lines 345-347: ide_process.wait() returns once the editor has exited;
\* for the other editors (lines 349-353) the loop never ends by itself
IdeWaitReturns ==
    /\ pc = "ide_wait"
    /\ chosen_ide \in WaitIdes
    /\ ideProc = "exited"
    /\ pc' = "cleanup"
    /\ UNCHANGED <<inputs, temp_dir, test_file, ide_process, chosen_ide, exit_code,
                   prompts, world, hist>>

\* lines 349-353: for the other editors, while True: time.sleep(1); the loop
\* never looks at the editor process
IdeSleepBegins ==
    /\ pc = "ide_wait"
    /\ chosen_ide \notin WaitIdes
    /\ pc' = "ide_sleep"
    /\ UNCHANGED <<inputs, temp_dir, test_file, ide_process, chosen_ide, exit_code,
                   prompts, world, hist>>

IdeSleepEnds ==
    /\ pc = "ide_sleep"
    /\ pc' = "ide_wait"
    /\ UNCHANGED <<inputs, temp_dir, test_file, ide_process, chosen_ide, exit_code,
                   prompts, world, hist>>

\* the inner handler without ide_process.terminate()
IdeWaitInterrupted_no_terminate ==
    /\ pc \in {"ide_wait", "ide_sleep"}
    /\ Interrupted("ide_wait")
    /\ ideProc' = ideProc
    /\ pc' = "cleanup"
    /\ UNCHANGED <<inputs, temp_dir, test_file, ide_process, chosen_ide, exit_code,
                   prompts, rootExists, createResult, reqStep, pkgStep, scriptRan,
                   replStarted, rmtreeCalls, rmtreeFailed, cleanupOutcome,
                   finalizeCalls, returned, retval,
                   scriptOnDisk, acquireResult, pipCalls, written, replExit>>

\* lines 354-357: KeyboardInterrupt during the wait is caught here
IdeWaitInterrupted ==
    /\ pc \in {"ide_wait", "ide_sleep"}
    /\ Interrupted("ide_wait")
    /\ ideProc' = IF ide_process # None /\ ideProc = "running"
                  THEN "terminated" ELSE ideProc
    /\ pc' = "cleanup"
    /\ UNCHANGED <<inputs, temp_dir, test_file, ide_process, chosen_ide, exit_code,
                   prompts, rootExists, createResult, reqStep, pkgStep, scriptRan,
                   replStarted, rmtreeCalls, rmtreeFailed, cleanupOutcome,
                   finalizeCalls, returned, retval,
                   scriptOnDisk, acquireResult, pipCalls, written, replExit>>

\* lines 257-273: the value of os.system on the environment's interpreter,
\* code being the exit code of that interpreter
start_repl(plat, code) == os_system(plat, code)

\* lines 360, 363, 365: exit_code = start_repl(env_path)
Repl ==
    /\ pc = "repl"
    /\ replStarted' = TRUE
    /\ \/ \E s \in ReplStatuses :
            /\ replExit' = s
            /\ exit_code' = start_repl(platform, s)
            /\ pc' = "cleanup"
            /\ UNCHANGED <<interrupts, returned, retval>>
       \/ /\ RaiseTo("except_kbd")
          /\ Interrupted("repl")
          /\ UNCHANGED <<exit_code, replExit>>
    /\ UNCHANGED <<inputs, temp_dir, test_file, ide_process, chosen_ide, prompts,
                   world, createResult, reqStep, pkgStep, scriptRan,
                   rmtreeCalls, rmtreeFailed, cleanupOutcome, finalizeCalls,
                   acquireResult, pipCalls, written>>

\* a shutil.rmtree that stops part-way: the root directory is still there,
\* a file in it may or may not have been removed already
HalfDeleted(present) == {present, FALSE}

\* lines 367-378: keep the environment or delete it, then return exit_code.
\* shutil.rmtree(temp_dir) has no ignore_errors here: an OSError or a
\* KeyboardInterrupt leaves the try body with the tree possibly half deleted.
Cleanup ==
    /\ pc = "cleanup"
    /\ finalizeCalls' = finalizeCalls + 1
    /\ IF keep
       THEN /\ Return(exit_code)
            /\ UNCHANGED <<rootExists, scriptOnDisk, rmtreeCalls, rmtreeFailed,
                           cleanupOutcome, interrupts>>
       ELSE /\ rmtreeCalls' = rmtreeCalls + 1
            /\ \E o \in {"ok", "oserror", "interrupt"} :
                /\ cleanupOutcome' = o
                /\ CASE o = "ok" ->
                        /\ rootExists' = FALSE
                        /\ scriptOnDisk' = FALSE
                        /\ Return(exit_code)
                        /\ UNCHANGED <<rmtreeFailed, interrupts>>
                     [] o = "oserror" ->
                        /\ rmtreeFailed' = TRUE
                        /\ scriptOnDisk' \in HalfDeleted(scriptOnDisk)
                        /\ RaiseTo("except_exc")
                        /\ UNCHANGED <<rootExists, interrupts>>
                     [] o = "interrupt" ->
                        /\ rmtreeFailed' = TRUE
                        /\ scriptOnDisk' \in HalfDeleted(scriptOnDisk)
                        /\ RaiseTo("except_kbd")
                        /\ Interrupted("cleanup")
                        /\ UNCHANGED rootExists
    /\ UNCHANGED <<inputs, temp_dir, test_file, ide_process, chosen_ide, exit_code,
                   prompts, ideProc, createResult, reqStep, pkgStep, scriptRan,
                   replStarted,
                   acquireResult, pipCalls, written, replExit>>

\* lines 382-386 and 390-393, the body shared by the two handlers: terminate
\* the editor if it still runs, then rmtree(temp_dir, ignore_errors=True)
\* unless keep.  A KeyboardInterrupt inside a handler is caught by nobody.
\* the handlers deleting the root whether or not --keep was given
HandlerDeletes_ignoring_keep == temp_dir # None

\* the handlers deleting without testing that a root was allocated
HandlerDeletes_unguarded == ~keep

\* lines 384 and 392: if temp_dir and not keep
HandlerDeletes == temp_dir # None /\ ~keep

HandlerBody(code) ==
    /\ finalizeCalls' = IF temp_dir # None THEN finalizeCalls + 1 ELSE finalizeCalls
    /\ ideProc' = IF ide_process # None /\ ideProc = "running"
                  THEN "terminated" ELSE ideProc
    /\ IF HandlerDeletes
       THEN /\ rmtreeCalls' = rmtreeCalls + 1
            /\ \E o \in {"ok", "ignored", "interrupt"} :
                CASE o = "ok" ->
                        /\ rootExists' = FALSE
                        /\ scriptOnDisk' = FALSE
                        /\ Return(code)
                        /\ UNCHANGED <<rmtreeFailed, interrupts>>
                  [] o = "ignored" ->
                        /\ rmtreeFailed' = TRUE
                        /\ scriptOnDisk' \in HalfDeleted(scriptOnDisk)
                        /\ Return(code)
                        /\ UNCHANGED <<rootExists, interrupts>>
                  [] o = "interrupt" ->
                        /\ rmtreeFailed' = TRUE
                        /\ scriptOnDisk' \in HalfDeleted(scriptOnDisk)
                        /\ pc' = "done"
                        /\ returned' = "raised"
                        /\ Interrupted("handler")
                        /\ UNCHANGED <<rootExists, retval>>
       ELSE /\ Return(code)
            /\ UNCHANGED <<rootExists, scriptOnDisk, rmtreeCalls, rmtreeFailed,
                           interrupts>>
    /\ UNCHANGED <<inputs, temp_dir, test_file, ide_process, chosen_ide, exit_code,
                   prompts, createResult, reqStep, pkgStep, scriptRan, replStarted,
                   cleanupOutcome,
                   acquireResult, pipCalls, written, replExit>>

\* the KeyboardInterrupt handler returning the generic failure code
ExceptKeyboardInterrupt_generic ==
    /\ pc = "except_kbd"
    /\ HandlerBody(ExitFailure)

\* lines 380-387: except KeyboardInterrupt ... return 130
ExceptKeyboardInterrupt ==
    /\ pc = "except_kbd"
    /\ HandlerBody(ExitInterrupt)

\* lines 388-394: except Exception ... return 1
ExceptException ==
    /\ pc = "except_exc"
    /\ HandlerBody(ExitFailure)

Next ==
    \/ Acquire
    \/ Initialize
    \/ PopulateRequirements
    \/ PopulatePackages
    \/ Activate
    \/ ChooseIde
    \/ OpenIde
    \/ IdeExits
    \/ IdeWaitReturns
    \/ IdeSleepBegins
    \/ IdeSleepEnds
    \/ IdeWaitInterrupted
    \/ Repl
    \/ Cleanup
    \/ ExceptKeyboardInterrupt
    \/ ExceptException

Spec == Init /\ [][Next]_vars

\* The steps run takes without waiting for the user: wait() returning once the
\* editor is gone, the sleep loop, the cleanup block and the two handlers.
\* Nothing is assumed about the user (prompt, REPL, closing the editor, Ctrl+C).
FairSpec ==
    /\ Spec
    /\ WF_vars(IdeWaitReturns)
    /\ WF_vars(IdeSleepBegins)
    /\ WF_vars(IdeSleepEnds)
    /\ WF_vars(Cleanup)
    /\ WF_vars(ExceptKeyboardInterrupt)
    /\ WF_vars(ExceptException)

TypeOK ==
    /\ pc \in {"mkdtemp", "create", "install_req", "install_pkg", "activate",
               "choose_ide", "open_ide", "ide_wait", "ide_sleep", "repl", "cleanup",
               "except_kbd", "except_exc", "done"}
    /\ returned \in {"running", "returned", "raised"}
    /\ (pc = "done") = (returned # "running")
    /\ rootExists \in BOOLEAN
    /\ ideProc \in {"none", "running", "exited", "terminated"}
    /\ prompts \in 0 .. MaxPrompts
    /\ scriptOnDisk \in BOOLEAN
    /\ scriptOnDisk => rootExists
    /\ retval \in {NoValue, 0, ExitFailure, ExitInterrupt}
                    \cup {os_system(p, s) : p \in Platforms, s \in ReplStatuses}

-----------------------------------------------------------------------------
\* Properties

\* an activation behaviour has taken place
Activated ==
    scriptRan \/ test_file # None \/ replStarted \/ ide_process # None \/ ideProc # "none"

\* C1: whenever the temporary root was allocated, by the time run is over the
\* terminal retain-or-destroy step has been entered exactly once.
C1_FinalizeExactlyOnce ==
    (pc = "done" /\ temp_dir # None) => finalizeCalls = 1

\* C2: when run returns after a successful mkdtemp, the root is on disk if
\* keep is set and is gone if keep is not set (unless an rmtree failed).
C2_RetainCorrectness ==
    (returned = "returned" /\ temp_dir # None) =>
        IF keep THEN rootExists ELSE (~rmtreeFailed => ~rootExists)

\* C3: with no packages and no requirements file, no temporary directory is
\* ever allocated, venv creation is never called, and run returns 1.
C3_ValidationGate ==
    (~TruthyList(packages) /\ ~Truthy(requirements)) =>
        /\ temp_dir = None
        /\ ~rootExists
        /\ createResult = "none"
        /\ returned = "returned" => retval = ExitFailure

\* C4: with --run given and creation and every install step successful, the
\* script is executed and run returns the script's exit status.
C4_ScriptExitCodePropagated ==
    ( /\ returned = "returned"
      /\ Truthy(run_script)
      /\ createResult = "ok"
      /\ reqStep \in {"none", "ok"}
      /\ pkgStep \in {"none", "ok"}
      /\ TruthyList(packages) \/ Truthy(requirements)
      /\ interrupts = {} )
    => (scriptRan /\ retval = run_script_function(TRUE, scriptStatus))

\* C5 as stated: a KeyboardInterrupt at any of the listed points after the
\* allocation of the root makes run return 130.
ClaimedInterruptPoints ==
    {"create", "install_req", "install_pkg", "choose_ide", "ide_wait", "repl", "cleanup"}

C5_InterruptReturns130_Original ==
    (returned = "returned" /\ interrupts \cap ClaimedInterruptPoints # {})
        => retval = ExitInterrupt

\* C5 amended: a KeyboardInterrupt raised in the try body of run outside the
\* prompt of choose_ide and outside the IDE wait makes run return 130; if the
\* only interrupts were at the prompt or during the IDE wait, run carries on
\* and returns exit_code (or 1 after an unexpected error).
HandledInterruptPoints ==
    {"create", "install_req", "install_pkg", "test_file", "open_ide", "repl", "cleanup"}

C5_InterruptReturns130 ==
    /\ (returned = "returned" /\ interrupts \cap HandledInterruptPoints # {})
            => retval = ExitInterrupt
    /\ (returned = "returned" /\ interrupts # {}
            /\ interrupts \subseteq {"choose_ide", "ide_wait"})
            => retval \in {exit_code, ExitFailure}

C5_Witness ==
    /\ returned = "returned"
    /\ temp_dir # None
    /\ "cleanup" \in interrupts
    /\ "ide_wait" \in interrupts
    /\ retval = ExitInterrupt

\* C6: after a failed environment creation there is no install step and no
\* activation, the root has been handed to rmtree when keep is not set, and
\* run returns 1.
C6_CreationFailureTeardown ==
    (pc = "done" /\ createResult = "failed") =>
        /\ reqStep = "none"
        /\ pkgStep = "none"
        /\ ~Activated
        /\ ~keep => rmtreeCalls >= 1
        /\ returned = "returned"
        /\ retval = ExitFailure

\* C7: once an install step has failed (pip exited non-zero) no later install
\* step and no activation happens, and run has returned 1.
C7_InstallFailureAborts ==
    /\ reqStep = "failed" =>
            /\ pkgStep = "none"
            /\ ~Activated
            /\ exit_code = NoValue
            /\ returned = "returned"
            /\ retval = ExitFailure
    /\ pkgStep = "failed" =>
            /\ ~Activated
            /\ exit_code = NoValue
            /\ returned = "returned"
            /\ retval = ExitFailure

C7_Witness ==
    /\ pkgStep = "failed"
    /\ reqStep = "ok"
    /\ returned = "returned"
    /\ retval = ExitFailure

\* C8: the package step starts only after creation has succeeded and, when a
\* requirements file is given, after the requirements step has completed; and
\* once the requirements step has succeeded run does not go past the install
\* stage without performing the package step.
C8_InstallOrder ==
    /\ pkgStep # "none" =>
            /\ createResult = "ok"
            /\ Truthy(requirements) => reqStep # "none"
    /\ (reqStep = "ok" /\ TruthyList(packages) /\ pc # "install_pkg")
            => pkgStep # "none"

C8_Witness ==
    /\ Truthy(requirements)
    /\ TruthyList(packages)
    /\ reqStep = "ok"
    /\ pkgStep = "ok"

\* C9: rmtree is called on the root at most once per run.
C9_DeletionAtMostOnce ==
    rmtreeCalls <= 1

\* C10: when keep is not set and the rmtree of the normal cleanup step fails,
\* run still returns exit_code, the value it returns when the deletion succeeds.
C10_DeletionErrorsSuppressed ==
    (returned = "returned" /\ ~keep /\ cleanupOutcome = "oserror")
        => retval = exit_code

\* C11: with keep set, rmtree is never called; the root, once made, stays on
\* disk and so does the synthesized test script.
C11_KeepNeverDeletes ==
    keep =>
        /\ rmtreeCalls = 0
        /\ temp_dir # None => rootExists
        /\ test_file # None => scriptOnDisk

C11_Witness ==
    /\ keep
    /\ pc = "done"
    /\ test_file # None
    /\ scriptOnDisk
    /\ retval = ExitInterrupt

\* C12: once activation has been entered, a run with a script path has
\* executed the script, synthesized nothing and started no interactive
\* session; a run without a script path has synthesized the test script
\* before any interactive session is started.
C12_ActivationExclusive ==
    /\ (Truthy(run_script) /\ exit_code # NoValue) =>
            (scriptRan /\ test_file = None /\ ~replStarted)
    /\ (~Truthy(run_script) /\ replStarted) => test_file # None

\* C13: when the interactive session ends with exit status s and nothing
\* else goes wrong, run returns exactly s.
C13_ReplStatusPropagated ==
    ( /\ returned = "returned"
      /\ replExit # NoValue
      /\ interrupts = {}
      /\ cleanupOutcome # "oserror" )
    => retval = replExit

\* C14: the synthesized script has one import per requested package, and its
\* target is the specifier cut before its first version or extras qualifier.
QualifierChars == {"[", "<", ">", "=", "!", "~", ";", " ", "@"}

BareName(spec) ==
    LET q == {i \in 1..Len(spec) : spec[i] \in QualifierChars} IN
    IF q = {} THEN spec
    ELSE SubSeq(spec, 1, (CHOOSE i \in q : \A j \in q : i <= j) - 1)

C14_ImportTargetDerivation ==
    test_file # None =>
        /\ Len(written) = Len(packages)
        /\ \A i \in 1..Len(packages) : written[i] = BareName(packages[i])

\* C15: when mkdtemp fails, venv creation is never called, pip is never
\* invoked, rmtree is never called, the cleanup step is never entered, and
\* run returns 1.
C15_AllocationFailure ==
    acquireResult = "failed" =>
        /\ createResult = "none"
        /\ pipCalls = <<>>
        /\ ~Activated
        /\ rmtreeCalls = 0
        /\ finalizeCalls = 0
        /\ pc = "done" => (returned = "returned" /\ retval = ExitFailure)

C15_Witness ==
    /\ acquireResult = "failed"
    /\ returned = "returned"
    /\ retval = ExitFailure

\* the controller is waiting on the editor
Suspended == pc \in {"ide_wait", "ide_sleep"}

\* C16 as stated: the controller leaves the wait only when the editor has
\* terminated or an interrupt arrives, and once the child (any editor, or the
\* REPL) has terminated the controller eventually reaches the cleanup step.
C16_HandoffResumes_Original ==
    /\ [][(Suspended /\ ~Suspended')
            => (ideProc = "exited" \/ interrupts' # interrupts)]_vars
    /\ (Suspended /\ ideProc = "exited") ~> (finalizeCalls >= 1)
    /\ (replExit # NoValue) ~> (finalizeCalls >= 1)

\* C16 amended: the same, with the resumption promised only for the REPL and
\* for the editors started with --wait; with any other editor the wait is
\* left by an interrupt only.
C16_HandoffResumes ==
    /\ [][(Suspended /\ ~Suspended')
            => ( \/ (chosen_ide \in WaitIdes /\ ideProc = "exited")
                 \/ interrupts' # interrupts )]_vars
    /\ (Suspended /\ chosen_ide \in WaitIdes /\ ideProc = "exited")
            ~> (finalizeCalls >= 1)
    /\ (replExit # NoValue) ~> (finalizeCalls >= 1)

C16_Witness ==
    /\ chosen_ide \in WaitIdes
    /\ ide_process # None
    /\ ideProc = "exited"
    /\ interrupts = {}
    /\ finalizeCalls = 1
    /\ returned = "returned"

\* C17: once an editor has been launched, it has exited or has been sent
\* terminate by the time rmtree is called on the root and by the time run is
\* over.
C17_EditorNotLeftRunning ==
    (ide_process # None /\ (pc = "done" \/ rmtreeCalls > 0))
        => ideProc \in {"exited", "terminated"}

C17_Witness ==
    /\ pc = "done"
    /\ ide_process # None
    /\ ideProc = "terminated"
    /\ rmtreeCalls >= 1

\* C18: when the requirements file is missing, pip is never invoked, no
\* package step and no activation follow, run returns 1, and the root had
\* been allocated and the environment created before the test.
C18_MissingRequirementsFile ==
    reqStep = "missing" =>
        /\ pipCalls = <<>>
        /\ pkgStep = "none"
        /\ ~Activated
        /\ exit_code = NoValue
        /\ returned = "returned"
        /\ retval = ExitFailure
        /\ acquireResult = "ok"
        /\ createResult = "ok"

C18_Witness ==
    /\ reqStep = "missing"
    /\ TruthyList(packages)
    /\ returned = "returned"
    /\ retval = ExitFailure
====
